---- MODULE Spec2Model ----
(***************************************************************************)
(* rdedupe (src/src/lib.rs): walk a directory tree, keep the paths that    *)
(* contain a pattern, hash every kept file on a rayon pool into a shared   *)
(* Mutex<HashMap<digest, Vec<path>>>, keep the entries with more than one  *)
(* path, build the statistics columns, print the groups, write the report. *)
(*                                                                         *)
(* Paths and patterns are sequences of characters, file contents are       *)
(* sequences of bytes.  One task per file runs the closure of lines 43-51; *)
(* every interleaving of the tasks is a behaviour.                         *)
(***************************************************************************)
EXTENDS Integers, Sequences, FiniteSets, TLC

VARIABLES
    entries,      \* the directory entries WalkDir yields, in its order
    content,      \* the file system: path -> bytes of the file
    pattern,      \* run's pattern argument
    phase,        \* run's position
    files,        \* run's `files` (line 131, then line 132)
    stdout,       \* the lines run has printed
    pc,           \* checksum: position of the task of files[i]
    digest,       \* checksum: the closure's local `checksum` of task i
    lock,         \* checksum: the task holding the MutexGuard, or NoWorker
    poisoned,     \* checksum: the Mutex's poison flag
    index,        \* checksum: the HashMap inside the Mutex
    pbPos,        \* checksum: the progress bar's position
    duplicates,   \* run's `duplicates` (line 137)
    series,       \* collect_statistics: the six Series of lines 77-117
    df,           \* collect_statistics: what DataFrame::new returned
    reportFile,   \* file_report.csv
    writeResult,  \* what write_report returned
    result        \* what run returned

vars == <<entries, content, pattern, phase, files, stdout, pc, digest, lock,
          poisoned, index, pbPos, duplicates, series, df, reportFile,
          writeResult, result>>

(* Bounds *)
MaxFiles == 4

NoWorker == 0

(* The paths of the tree: the root directory and the files under it. *)
Root == <<"d">>

AllPaths ==
    << <<"d", "a">>, <<"d", "b">>, <<"d", "a", "b">>, <<"d", "b", "a">>,
       <<"d", "a", "a">>, <<"d", "b", "b">>, <<"d", "a", "a", "a">> >>

PathAt(i) == AllPaths[((i - 1) % Len(AllPaths)) + 1]

Patterns == { <<>>, <<"a">> }

Contents == { <<>>, <<0>>, <<1>> }

Range(s) == { s[i] : i \in DOMAIN s }

(* md5::compute and format!("{:x}", ..): the lower-case hex MD5 of the bytes. *)
Md5HexBySize(bytes) ==
    IF Len(bytes) = 0 THEN "d41d8cd98f00b204e9800998ecf8427e"
                      ELSE "93b885adfe0da089cdf634904fd59f71"

Md5Hex(bytes) ==
    CASE bytes = <<>>     -> "d41d8cd98f00b204e9800998ecf8427e"
      [] bytes = <<0>>    -> "93b885adfe0da089cdf634904fd59f71"
      [] bytes = <<1>>    -> "55a54008ad1ba589aa210d2629c1df41"
      [] bytes = <<0, 0>> -> "c4103f122d27677c9db144cae1394a66"

(* str::contains: the pattern occurs as a contiguous substring. *)
Contains(s, pat) ==
    \E i \in 0..(Len(s) - Len(pat)) : SubSeq(s, i + 1, i + Len(pat)) = pat

(* walk, lines 10-17: the paths of the entries that are regular files. *)
walk(es) ==
    LET fs == SelectSeq(es, LAMBDA e : e.isFile)
    IN  [i \in 1..Len(fs) |-> fs[i].path]

(* find, lines 21-29: the subsequence of the paths containing the pattern. *)
find(fs, pat) == SelectSeq(fs, LAMBDA f : Contains(f, pat))

(* lines 47-50: entry(checksum).or_insert_with(Vec::new).push(file) *)
IndexInsertOverwrite(idx, key, file) ==
    IF key \in DOMAIN idx THEN [idx EXCEPT ![key] = <<file>>]
                          ELSE idx @@ (key :> <<file>>)

IndexInsert(idx, key, file) ==
    IF key \in DOMAIN idx THEN [idx EXCEPT ![key] = Append(@, file)]
                          ELSE idx @@ (key :> <<file>>)

(* line 46: Mutex::lock blocks until no guard is alive. *)
CanLockUnguarded(l) == TRUE

CanLock(l) == l = NoWorker

(* line 44: fs::read(..).unwrap() panics before line 46 takes the lock, so a  *)
(* failed read leaves the map as it is.                                      *)
IndexAfterReadFailurePlaceholder(idx, file) == IndexInsert(idx, Md5Hex(<<>>), file)

IndexAfterReadFailure(idx, file) == idx

(* line 61: an entry is kept when its vector has more than one path. *)
IsDuplicateEntryNonEmpty(paths) == Len(paths) >= 1

IsDuplicateEntry(paths) == Len(paths) > 1

(* The orders in which a HashMap may hand out its entries (line 60). *)
KeyOrders(idx) ==
    { o \in [1..Cardinality(DOMAIN idx) -> DOMAIN idx] :
        \A a, b \in DOMAIN o : a # b => o[a] # o[b] }

(* find_duplicates, lines 58-66, iterating the map in the order `order`. *)
find_duplicates(checksums, order) ==
    LET kept == SelectSeq(order, LAMBDA k : IsDuplicateEntry(checksums[k]))
    IN  [j \in 1..Len(kept) |-> checksums[kept[j]]]

(* A cast `as i32` of a value below 2^32: its two's complement reading. *)
AsI32(x) ==
    IF x <= 2147483647 THEN x ELSE ((x - 2147483647) - 1) - 2147483647 - 1

(* fs::metadata(file).len(): the file's size in bytes. *)
FileLen(file) == Len(content[file])

RECURSIVE SumLen(_)
SumLen(paths) ==
    IF paths = <<>> THEN 0 ELSE FileLen(Head(paths)) + SumLen(Tail(paths))

RECURSIVE SumLenI32(_)
SumLenI32(paths) ==
    IF paths = <<>> THEN 0
    ELSE AsI32(AsI32(FileLen(Head(paths))) + SumLenI32(Tail(paths)))

(* lines 95-103: the group's TotalSize value. *)
TotalSizeOf(group) == SumLen(group)

(* lines 107-116: the group's PotentialSave value. *)
PotentialSaveOf(group) == AsI32((Len(group) - 1) * SumLenI32(group))

(* lines 77-117: the six Series handed to DataFrame::new.  `duplicates` is   *)
(* declared Vec<String>, but the closures (files.len(), files.iter()) and   *)
(* run's call at line 139 use each element as one group of paths.           *)
StatisticsSeries(fs, dups) ==
    [File          |-> fs,
     isDuplicate   |-> [k \in 1..Len(dups) |-> IF Len(dups[k]) > 1 THEN 1 ELSE 0],
     Size          |-> [i \in 1..Len(fs) |-> FileLen(fs[i])],
     Occurrences   |-> [k \in 1..Len(dups) |-> AsI32(Len(dups[k]))],
     TotalSize     |-> [k \in 1..Len(dups) |-> TotalSizeOf(dups[k])],
     PotentialSave |-> [k \in 1..Len(dups) |-> PotentialSaveOf(dups[k])]]

(* DataFrame::new (line 76): a shape error unless all columns are equally long. *)
DataFrameNewOk(cols) ==
    \A a, b \in DOMAIN cols : Len(cols[a]) = Len(cols[b])

GroupMembers(dups) == UNION { Range(dups[k]) : k \in DOMAIN dups }

EmptyIndex == [k \in {} |-> <<>>]

EmptySeries ==
    [File |-> <<>>, isDuplicate |-> <<>>, Size |-> <<>>,
     Occurrences |-> <<>>, TotalSize |-> <<>>, PotentialSave |-> <<>>]

Workers == 1..Len(files)

Terminal == {"done", "panicked", "skipped"}

Init ==
    /\ \E n \in 0..MaxFiles :
         /\ entries = <<[path |-> Root, isFile |-> FALSE]>>
                      \o [i \in 1..n |-> [path |-> PathAt(i), isFile |-> TRUE]]
         /\ content \in [{PathAt(i) : i \in 1..n} -> Contents]
    /\ pattern \in Patterns
    /\ phase = "walk"
    /\ files = <<>>
    /\ stdout = <<>>
    /\ pc = <<>>
    /\ digest = <<>>
    /\ lock = NoWorker
    /\ poisoned = FALSE
    /\ index = EmptyIndex
    /\ pbPos = 0
    /\ duplicates = <<>>
    /\ series = EmptySeries
    /\ df = "none"
    /\ reportFile = "absent"
    /\ writeResult = "none"
    /\ result = "none"

(* line 131, walk(path)?: an unreadable entry ends run with the error. *)
WalkFail ==
    /\ phase = "walk"
    /\ phase' = "returned"
    /\ result' = "err_walk"
    /\ UNCHANGED <<entries, content, pattern, files, stdout, pc, digest, lock,
                   poisoned, index, pbPos, duplicates, series, df, reportFile,
                   writeResult>>

(* lines 131-133 and 35-42: walk, find, the count line, checksum's set-up. *)
WalkFind ==
    /\ phase = "walk"
    /\ LET fs == find(walk(entries), pattern)
       IN  /\ files' = fs
           /\ stdout' = Append(stdout, [kind |-> "files", n |-> Len(fs), group |-> <<>>])
           /\ pc' = [i \in 1..Len(fs) |-> "todo"]
           /\ digest' = [i \in 1..Len(fs) |-> ""]
    /\ phase' = "checksum"
    /\ UNCHANGED <<entries, content, pattern, lock, poisoned, index, pbPos,
                   duplicates, series, df, reportFile, writeResult, result>>

(* lines 44-45: the task reads its file and formats the digest. *)
Hash(i) ==
    /\ phase = "checksum"
    /\ pc[i] = "todo"
    /\ digest' = [digest EXCEPT ![i] = Md5Hex(content[files[i]])]
    /\ pc' = [pc EXCEPT ![i] = "hashed"]
    /\ UNCHANGED <<entries, content, pattern, phase, files, stdout, lock,
                   poisoned, index, pbPos, duplicates, series, df, reportFile,
                   writeResult, result>>

(* line 44: the read fails and unwrap panics; a guard held by the task would *)
(* be dropped during the unwinding and poison the Mutex.                    *)
ReadFail(i) ==
    /\ phase = "checksum"
    /\ pc[i] = "todo"
    /\ pc' = [pc EXCEPT ![i] = "panicked"]
    /\ index' = IndexAfterReadFailure(index, files[i])
    /\ poisoned' = (poisoned \/ lock = i)
    /\ lock' = IF lock = i THEN NoWorker ELSE lock
    /\ UNCHANGED <<entries, content, pattern, phase, files, stdout, digest,
                   pbPos, duplicates, series, df, reportFile, writeResult,
                   result>>

(* rayon: once a task has panicked, work not yet started may be dropped. *)
Skip(i) ==
    /\ phase = "checksum"
    /\ pc[i] = "todo"
    /\ \E j \in Workers : pc[j] = "panicked"
    /\ pc' = [pc EXCEPT ![i] = "skipped"]
    /\ UNCHANGED <<entries, content, pattern, phase, files, stdout, digest,
                   lock, poisoned, index, pbPos, duplicates, series, df,
                   reportFile, writeResult, result>>

(* line 46: checksums.lock().unwrap() *)
Lock(i) ==
    /\ phase = "checksum"
    /\ pc[i] = "hashed"
    /\ CanLock(lock)
    /\ IF poisoned
          THEN /\ pc' = [pc EXCEPT ![i] = "panicked"]
               /\ UNCHANGED lock
          ELSE /\ pc' = [pc EXCEPT ![i] = "locked"]
               /\ lock' = i
    /\ UNCHANGED <<entries, content, pattern, phase, files, stdout, digest,
                   poisoned, index, pbPos, duplicates, series, df, reportFile,
                   writeResult, result>>

(* lines 47-51: the insert, the guard dropped at the closure's end, and the *)
(* progress bar advanced for the finished item.                            *)
Insert(i) ==
    /\ phase = "checksum"
    /\ pc[i] = "locked"
    /\ index' = IndexInsert(index, digest[i], files[i])
    /\ lock' = IF lock = i THEN NoWorker ELSE lock
    /\ pc' = [pc EXCEPT ![i] = "done"]
    /\ pbPos' = pbPos + 1
    /\ UNCHANGED <<entries, content, pattern, phase, files, stdout, digest,
                   poisoned, duplicates, series, df, reportFile, writeResult,
                   result>>

(* lines 51-52 and 135: for_each returns when every task has ended; a task's *)
(* panic is resumed in the caller, otherwise the map is returned.           *)
ChecksumDone ==
    /\ phase = "checksum"
    /\ \A i \in Workers : pc[i] \in Terminal
    /\ IF poisoned \/ \E i \in Workers : pc[i] = "panicked"
          THEN /\ phase' = "returned"
               /\ result' = "panic"
          ELSE /\ phase' = "find_duplicates"
               /\ UNCHANGED result
    /\ UNCHANGED <<entries, content, pattern, files, stdout, pc, digest, lock,
                   poisoned, index, pbPos, duplicates, series, df, reportFile,
                   writeResult>>

(* line 137: find_duplicates(checksums) *)
FindDuplicates ==
    /\ phase = "find_duplicates"
    /\ \E order \in KeyOrders(index) :
         duplicates' = find_duplicates(index, order)
    /\ phase' = "collect_statistics"
    /\ UNCHANGED <<entries, content, pattern, files, stdout, pc, digest, lock,
                   poisoned, index, pbPos, series, df, reportFile,
                   writeResult, result>>

(* line 139, collect_statistics(files, duplicates).  A file may have gone    *)
(* since it was hashed: at line 71 the error leaves through `?` (line 74),  *)
(* at lines 100 and 113 unwrap panics.  Otherwise the Series are built and  *)
(* DataFrame::new's error leaves through `?` (line 118).  run has nothing   *)
(* to go on with when no DataFrame came back, so either error ends it.      *)
CollectStatistics ==
    /\ phase = "collect_statistics"
    /\ \E stat \in {"ok", "gone_at_71", "gone_at_100"} :
         CASE stat = "gone_at_71" ->
                /\ files # <<>>
                /\ phase' = "returned"
                /\ result' = "err_io"
                /\ UNCHANGED <<series, df>>
           [] stat = "gone_at_100" ->
                /\ GroupMembers(duplicates) # {}
                /\ phase' = "returned"
                /\ result' = "panic"
                /\ UNCHANGED <<series, df>>
           [] stat = "ok" ->
                LET cols == StatisticsSeries(files, duplicates)
                IN  /\ series' = cols
                    /\ IF DataFrameNewOk(cols)
                          THEN /\ df' = "ok"
                               /\ phase' = "print_duplicates"
                               /\ UNCHANGED result
                          ELSE /\ df' = "err"
                               /\ phase' = "returned"
                               /\ result' = "err_shape"
    /\ UNCHANGED <<entries, content, pattern, files, stdout, pc, digest, lock,
                   poisoned, index, pbPos, duplicates, reportFile,
                   writeResult>>

(* lines 141-144: every group, then the number of groups. *)
PrintDuplicates ==
    /\ phase = "print_duplicates"
    /\ stdout' = stdout
                 \o [k \in 1..Len(duplicates) |->
                       [kind |-> "group", n |-> Len(duplicates[k]), group |-> duplicates[k]]]
                 \o <<[kind |-> "duplicates", n |-> Len(duplicates), group |-> <<>>]>>
    /\ phase' = "write_report"
    /\ UNCHANGED <<entries, content, pattern, files, pc, digest, lock,
                   poisoned, index, pbPos, duplicates, series, df, reportFile,
                   writeResult, result>>

(* lines 146-148 and 122-127: write_report's Result is dropped (line 146 has *)
(* no `?`), and run returns Ok(()).                                         *)
WriteReport ==
    /\ phase = "write_report"
    /\ \E outcome \in {"ok", "err_create", "err_write"} :
         /\ writeResult' = outcome
         /\ reportFile' = CASE outcome = "ok"         -> "written"
                            [] outcome = "err_create" -> reportFile
                            [] outcome = "err_write"  -> "truncated"
    /\ phase' = "returned"
    /\ result' = "ok"
    /\ UNCHANGED <<entries, content, pattern, files, stdout, pc, digest, lock,
                   poisoned, index, pbPos, duplicates, series, df>>

Next ==
    \/ WalkFail
    \/ WalkFind
    \/ \E i \in Workers : Hash(i)
    \/ \E i \in Workers : ReadFail(i)
    \/ \E i \in Workers : Skip(i)
    \/ \E i \in Workers : Lock(i)
    \/ \E i \in Workers : Insert(i)
    \/ ChecksumDone
    \/ FindDuplicates
    \/ CollectStatistics
    \/ PrintDuplicates
    \/ WriteReport

Spec == Init /\ [][Next]_vars

(***************************************************************************)
(* Properties                                                              *)
(***************************************************************************)

(* The places <<key, position>> of the map that hold the path. *)
Places(idx, path) ==
    { kj \in UNION { {k} \X DOMAIN idx[k] : k \in DOMAIN idx } :
        idx[kj[1]][kj[2]] = path }

IndexPaths(idx) == UNION { Range(idx[k]) : k \in DOMAIN idx }

(* for_each has run every task to its end and no read failed. *)
ChecksumOk == phase # "walk" /\ \A i \in Workers : pc[i] = "done"

(* find_duplicates has returned. *)
DuplicatesFound ==
    ChecksumOk /\ phase \notin {"walk", "checksum", "find_duplicates"}

(* collect_statistics has built its Series. *)
SeriesBuilt == df # "none"

PositionIn(seq, x) == CHOOSE i \in DOMAIN seq : seq[i] = x

(* C1: when no read fails, whatever the interleaving of the tasks, the map *)
(* checksum returns holds every input path exactly once: no path is        *)
(* missing, none is in two entries or twice in one, and nothing else is in *)
(* the map.                                                                *)
C1_Completeness ==
    ChecksumOk =>
        /\ \A p \in Range(files) : Cardinality(Places(index, p)) = 1
        /\ IndexPaths(index) = Range(files)

C1_Witness ==
    /\ ChecksumOk
    /\ Len(files) >= 3
    /\ Cardinality(DOMAIN index) >= 2
    /\ \E k \in DOMAIN index : Len(index[k]) >= 2

(* C2: after checksum and find_duplicates, two different paths are in the  *)
(* same group iff their contents are equal, and the groups, as sets, are   *)
(* the classes of equal content with two or more files: the same for every *)
(* completion order.                                                       *)
SameContent(c) == { p \in Range(files) : content[p] = c }

C2_Grouping ==
    DuplicatesFound =>
        /\ \A p, q \in Range(files) :
             p # q =>
               ((\E k \in DOMAIN duplicates : {p, q} \subseteq Range(duplicates[k]))
                  <=> content[p] = content[q])
        /\ { Range(duplicates[k]) : k \in DOMAIN duplicates }
             = { S \in { SameContent(c) : c \in Contents } : Cardinality(S) >= 2 }
        /\ \A j, k \in DOMAIN duplicates :
             Range(duplicates[j]) = Range(duplicates[k]) => j = k

C2_Witness ==
    /\ DuplicatesFound
    /\ \E k \in DOMAIN duplicates :
         PositionIn(files, duplicates[k][1]) > PositionIn(files, duplicates[k][2])
    /\ \E p, q \in Range(files) :
         /\ Len(content[p]) = Len(content[q])
         /\ content[p] # content[q]

(* C3: at most one task is inside the insert, it is the one holding the    *)
(* lock, it took the lock with its digest already computed, and a task     *)
(* that is reading, hashing or waiting holds no lock and has put nothing   *)
(* into the map.                                                           *)
C3_CriticalSection ==
    /\ Cardinality({ i \in Workers : pc[i] = "locked" }) <= 1
    /\ \A i \in Workers : (pc[i] = "locked") <=> (lock = i)
    /\ lock # NoWorker => lock \in Workers
    /\ \A i \in Workers :
         pc[i] = "locked" => digest[i] = Md5Hex(content[files[i]])
    /\ \A i \in Workers :
         pc[i] \in {"todo", "hashed", "locked"} => files[i] \notin IndexPaths(index)

C3_Witness ==
    \E i, j \in Workers :
        /\ pc[i] = "locked"
        /\ pc[j] = "hashed"
        /\ \E h \in Workers : pc[h] = "todo"

(* C4: find_duplicates returns exactly the map's vectors of length two or  *)
(* more, each once and unchanged, and none of length one; the groups are   *)
(* pairwise disjoint and none has fewer than two members.                  *)
C4_FindDuplicates ==
    DuplicatesFound =>
        /\ \A k \in DOMAIN duplicates :
             /\ Len(duplicates[k]) >= 2
             /\ \E key \in DOMAIN index : index[key] = duplicates[k]
        /\ \A key \in DOMAIN index :
             Cardinality({ k \in DOMAIN duplicates : duplicates[k] = index[key] })
               = IF Len(index[key]) >= 2 THEN 1 ELSE 0
        /\ \A j, k \in DOMAIN duplicates :
             j # k => Range(duplicates[j]) \cap Range(duplicates[k]) = {}

C4_Witness ==
    /\ DuplicatesFound
    /\ Len(duplicates) >= 1
    /\ \E key \in DOMAIN index : Len(index[key]) = 1

(* C5: for a group of N files of S bytes each the TotalSize value is N*S   *)
(* and the PotentialSave value is (N-1)*S.                                 *)
C5_Savings ==
    SeriesBuilt =>
        \A k \in DOMAIN duplicates :
            \A S \in { Len(c) : c \in Contents } :
                (\A p \in Range(duplicates[k]) : FileLen(p) = S) =>
                    /\ series.TotalSize[k] = Len(duplicates[k]) * S
                    /\ series.PotentialSave[k] = (Len(duplicates[k]) - 1) * S

(* C6: the isDuplicate value on the row of an original path is true iff    *)
(* the path is a member of some duplicate group.                           *)
C6_IsDuplicate ==
    SeriesBuilt =>
        \A i \in DOMAIN series.File :
            /\ i \in DOMAIN series.isDuplicate
            /\ (series.isDuplicate[i] = 1
                  <=> series.File[i] \in GroupMembers(duplicates))

(* C7: the report is produced, its File, isDuplicate and Size columns have *)
(* as many rows as there are original paths and its Occurrences, TotalSize *)
(* and PotentialSave columns as many as there are duplicate groups.        *)
C7_RowCounts ==
    SeriesBuilt =>
        /\ df = "ok"
        /\ Len(series.File) = Len(files)
        /\ Len(series.isDuplicate) = Len(files)
        /\ Len(series.Size) = Len(files)
        /\ Len(series.Occurrences) = Len(duplicates)
        /\ Len(series.TotalSize) = Len(duplicates)
        /\ Len(series.PotentialSave) = Len(duplicates)

(* C8: a file whose read failed is under no key of the map, the map holds  *)
(* exactly the files of the finished tasks, each once and under its own    *)
(* digest, and the failing task neither holds nor has poisoned the lock.   *)
C8_FailedRead ==
    (\E i \in Workers : pc[i] = "panicked") =>
        /\ IndexPaths(index) = { files[i] : i \in { j \in Workers : pc[j] = "done" } }
        /\ \A i \in Workers :
             pc[i] = "done" =>
               Places(index, files[i])
                 = { <<Md5Hex(content[files[i]]), pos>> :
                       pos \in { x \in DOMAIN index[Md5Hex(content[files[i]])] :
                                   index[Md5Hex(content[files[i]])][x] = files[i] } }
               /\ Cardinality(Places(index, files[i])) = 1
        /\ \A i \in Workers : pc[i] = "panicked" => lock # i
        /\ ~poisoned

C8_Witness ==
    /\ phase = "checksum"
    /\ \E i, j, h \in Workers :
         /\ pc[i] = "panicked"
         /\ pc[j] = "done"
         /\ pc[h] = "locked"

(* C9: when walk fails run returns that error before any hashing starts,   *)
(* and when write_report fails run returns an error instead of Ok.         *)
C9_RunResult ==
    /\ result = "err_walk" => (pc = <<>> /\ index = EmptyIndex /\ pbPos = 0)
    /\ (phase = "returned" /\ writeResult \in {"err_create", "err_write"})
         => result # "ok"

(* C10: once find_duplicates has produced groups, a file that cannot be    *)
(* stat-ed in collect_statistics does not end run without every group and  *)
(* the number of groups printed.                                           *)
C10_DuplicatesReported ==
    (/\ phase = "returned"
     /\ DuplicatesFound
     /\ Len(duplicates) >= 1
     /\ result \in {"err_io", "panic"}) =>
        /\ \A k \in DOMAIN duplicates :
             \E j \in DOMAIN stdout :
                 stdout[j].kind = "group" /\ stdout[j].group = duplicates[k]
        /\ \E j \in DOMAIN stdout :
             stdout[j].kind = "duplicates" /\ stdout[j].n = Len(duplicates)

====
